---- MODULE Spec2Model ----
(***************************************************************************)
(* A model of the weak Robin Hood hash table of tov/intersections          *)
(* (src/src/util/weak_unordered_set.h: class rh_weak_hash_table and its    *)
(* predecessor rh_weak_unordered_set), instantiated at the lone weak       *)
(* handle std::weak_ptr<const Key>.                                        *)
(*                                                                         *)
(* A value is a heap object made by make_shared: it has an identity        *)
(* (1..NumValues), a key (key_of) and a count of external strong owners    *)
(* (refs).  A bucket stores the identity only: a weak handle.              *)
(***************************************************************************)
EXTENDS Integers, Sequences, FiniteSets, TLC

\* ------------------------------------------------------------------ bounds
\* number of value objects the clients ever create
NumValues == 5
\* number of distinct keys; value v has key ((v-1) % NumKeys) + 1
NumKeys == 4
\* width of size_t in the model (the code: sizeof(size_t) * CHAR_BIT)
WordBits == 5
\* largest element count a fixed_vector is constructed with
MaxVecSize == 2
\* largest element value stored in a fixed_vector<int>
MaxElement == 1

\* ------------------------------------------------------- program constants
\* grow_at_ratio = 0.75, kept as the exact fraction 3/4
grow_at_ratio_num == 3
grow_at_ratio_den == 4

Values == 1..NumValues
Keys == 1..NumKeys
\* a default-constructed (empty) weak_ptr, and a null shared_ptr
NoValue == 0
\* a null key pointer
NoKey == 0

\* the key a value object holds (for shared_ptr<const int>: the int)
key_of(v) == ((v - 1) % NumKeys) + 1

RECURSIVE Pow2(_)
Pow2(n) == IF n = 0 THEN 1 ELSE 2 * Pow2(n - 1)

\* size_t arithmetic wraps
SizeT(n) == n % Pow2(WordBits)

number_of_hash_bits_ == WordBits - 1

\* (size_t(1) << number_of_hash_bits_) - 1, used as x & mask = x mod 2^bits
hash_code_mask_ == Pow2(number_of_hash_bits_) - 1

\* the client hashers the table is constructed with: the identity
\* (std::hash<int>) and one under which keys collide: keys 1..3 share code 0
\* and the keys after them share code 1
HashFns ==
    { [k \in Keys |-> SizeT(k)],
      [k \in Keys |-> k \div 4] }

\* the bucket_count arguments the table is constructed with
InitialCapacities == {1, 2}

VARIABLES
    client_hash,  \* Hash hash_ inside real_hasher: Keys -> size_t
    buckets_,     \* vector_t buckets_: 0..capacity-1 -> Bucket
    size_,        \* size_t size_
    refs,         \* per value object: number of external shared_ptr owners
    halted,       \* "no", or why the process no longer runs the program:
                  \* "assert", "hang", "undefined"
    traversed,    \* a range-for over the table ran since the last change
    yielded,      \* what that range-for collected, in order
    vecs,         \* the fixed_vector<int> objects a client declares, by name
    vec_last,     \* the last fixed_vector call: what it was and what it gave
    vec_halted,   \* "no", or "undefined" once undefined behaviour lost the run
    iter,         \* the iterator a client holds on the table: base_, limit_
    inserted,     \* per key: the value the client inserted last, or NoValue
    pair          \* the strong pair of key and value object a client made
                  \* weak pair handles from

\* the state of the hash table and of its clients
table_vars ==
    <<client_hash, buckets_, size_, refs, halted, traversed, yielded,
      iter, inserted, pair>>

\* the state of the fixed_vector objects and of their client
vec_vars == <<vecs, vec_last, vec_halted>>

vars == <<client_hash, buckets_, size_, refs, halted, traversed, yielded,
          vecs, vec_last, vec_halted, iter, inserted, pair>>

\* ----------------------------------------------------------- weak handles
\* strong count of the control block of v: the external owners; a bucket
\* holds a weak_value_type and adds nothing
use_count(v) == refs[v]

\* std::weak_ptr::expired
expired(w) == w = NoValue \/ use_count(w) = 0

\* std::weak_ptr::lock: a shared_ptr to the object, or null
lock(w) == IF expired(w) THEN NoValue ELSE w

\* weak_traits<std::weak_ptr<const T>>::key
key(view) == IF view # NoValue THEN key_of(view) ELSE NoKey

\* ------------------------------------------------------------- weak pairs
\* a view or strong pair of two null pointers
NullPair == [first |-> NoValue, second |-> NoValue]

\* weak_pair::weak_pair(strong): first(strong.first), second(strong.second)
weak_pair(strong) == [first |-> strong.first, second |-> strong.second]

\* an expired() of weak_pair that looks at the key reference only
weak_pair_expired_key_only(h) == expired(h.first)

\* weak_pair::expired
weak_pair_expired(h) == expired(h.first) \/ expired(h.second)

\* weak_pair::lock: both locked pointers, or two null pointers
weak_pair_lock(h) ==
    IF lock(h.first) # NoValue
    THEN IF lock(h.second) # NoValue
         THEN [first |-> lock(h.first), second |-> lock(h.second)]
         ELSE NullPair
    ELSE NullPair

\* weak_pair::key(view)
weak_pair_key(view) ==
    IF view.first # NoValue THEN key_of(view.first) ELSE NoKey

\* weak_key_pair::weak_key_pair(strong): the key weakly, the value by copy
weak_key_pair(strong) == [first |-> strong.first, second |-> strong.second]

\* weak_key_pair::expired
weak_key_pair_expired(h) == expired(h.first)

\* weak_key_pair::lock
weak_key_pair_lock(h) == [first |-> lock(h.first), second |-> h.second]

\* weak_key_pair::key(view)
weak_key_pair_key(view) ==
    IF view.first # NoValue THEN key_of(view.first) ELSE NoKey

\* weak_value_pair::weak_value_pair(strong): the key by copy, the value
\* weakly
weak_value_pair(strong) == [first |-> strong.first, second |-> strong.second]

\* weak_value_pair::expired
weak_value_pair_expired(h) == expired(h.second)

\* weak_value_pair::lock
weak_value_pair_lock(h) == [first |-> h.first, second |-> lock(h.second)]

\* a key(view) of weak_value_pair that does not look at the value pointer
weak_value_pair_key_ignores_value(view) == view.first

\* weak_value_pair::key(view): &view.first if the value pointer is set
weak_value_pair_key(view) ==
    IF view.second # NoValue THEN view.first ELSE NoKey

\* KeyEqual = std::equal_to<Key>
equal_(a, b) == a = b

\* a real_hasher that forgets the mask
hash_unmasked(k) == client_hash[k]

\* real_hasher::operator(): the client hash with the high bit masked out
hash_(k) == client_hash[k] % (hash_code_mask_ + 1)

\* ---------------------------------------------------------------- buckets
\* Bucket(): used_(0), hash_code_(0), empty weak pointer
EmptyBucket == [value_ |-> NoValue, used_ |-> FALSE, hash_code_ |-> 0]

\* fixed_vector<Bucket>(capacity): every slot default-constructed
NewBuckets(capacity) == [p \in 0..(capacity - 1) |-> EmptyBucket]

Capacity(bk) == Cardinality(DOMAIN bk)

\* an occupied() that forgets the expiry test
occupied_used_only(b) == b.used_

\* Bucket::occupied
occupied(b) == b.used_ /\ ~expired(b.value_)

next_bucket_(bk, pos) == (pos + 1) % Capacity(bk)

probe_distance_(bk, actual, preferred) ==
    IF actual >= preferred
    THEN actual - preferred
    ELSE actual + Capacity(bk) - preferred

which_bucket_(bk, hash_code) == hash_code % Capacity(bk)

\* a claim of an unused bucket that forgets ++size_
counted_forgotten(sz) == sz

\* a claim of an unused bucket that counts the bucket twice
counted_twice(sz) == SizeT(sz + 2)

\* ++size_ on the claim of an unused bucket
counted_(sz) == SizeT(sz + 1)

\* the Robin Hood test of lookup_ off by one: >= for >
passed_off_by_one(bk, pos, dist) ==
    dist >= probe_distance_(bk, pos, which_bucket_(bk, bk[pos].hash_code_))

\* the Robin Hood test of lookup_: the search has gone further from its ideal
\* slot than the bucket at pos is from its own
passed_(bk, pos, dist) ==
    dist > probe_distance_(bk, pos, which_bucket_(bk, bk[pos].hash_code_))

\* ----------------------------------------------------------------- insert_
\* the loop of insert_: one call is one iteration; fuel bounds the number of
\* iterations the model follows before it calls the loop endless
RECURSIVE insert_loop(_, _, _, _, _, _, _)
insert_loop(bk, sz, hash_code, value, pos, dist, fuel) ==
    LET bucket == bk[pos]
        stored == [value_ |-> value, used_ |-> TRUE, hash_code_ |-> hash_code]
        bucket_locked == lock(bucket.value_)
        bucket_key == key(bucket_locked)
        existing_distance ==
            probe_distance_(bk, pos, which_bucket_(bk, bucket.hash_code_))
    IN  IF fuel = 0
        THEN [buckets |-> bk, size |-> sz, returned |-> FALSE]
        ELSE IF ~bucket.used_
        THEN [buckets |-> [bk EXCEPT ![pos] = stored],
              size |-> counted_(sz), returned |-> TRUE]
        ELSE IF bucket_key = NoKey
        THEN [buckets |-> [bk EXCEPT ![pos] = stored],
              size |-> sz, returned |-> TRUE]
        ELSE IF hash_code = bucket.hash_code_
                /\ equal_(bucket_key, key(value))
        THEN [buckets |-> [bk EXCEPT ![pos].value_ = value],
              size |-> sz, returned |-> TRUE]
        ELSE IF dist > existing_distance
        THEN insert_loop([bk EXCEPT ![pos] = stored], sz,
                         bucket.hash_code_, bucket_locked,
                         next_bucket_(bk, pos), existing_distance + 1,
                         fuel - 1)
        ELSE insert_loop(bk, sz, hash_code, value,
                         next_bucket_(bk, pos), dist + 1, fuel - 1)

\* iterations after which the model calls a probe walk endless
Fuel(bk) == 4 * Capacity(bk)

\* an insert_ that afterwards gives up the buckets it finds expired
insert_releasing_expired(bk, sz, hash_code, value) ==
    LET r == insert_loop(bk, sz, hash_code, value,
                         which_bucket_(bk, hash_code), 0, Fuel(bk))
    IN  [r EXCEPT !.buckets =
            [p \in DOMAIN r.buckets |->
                IF r.buckets[p].used_ /\ expired(r.buckets[p].value_)
                THEN EmptyBucket
                ELSE r.buckets[p]]]

insert_(bk, sz, hash_code, value) ==
    insert_loop(bk, sz, hash_code, value, which_bucket_(bk, hash_code), 0,
                Fuel(bk))

\* ------------------------------------------------------------------ growth
\* a loop of resize_ that re-inserts every value under hash code 0
RECURSIVE resize_loop_drops_hash(_, _, _)
resize_loop_drops_hash(old_buckets, i, acc) ==
    IF i = Capacity(old_buckets) \/ ~acc.returned
    THEN acc
    ELSE LET bucket == old_buckets[i]
             value == lock(bucket.value_)
         IN  IF bucket.used_ /\ ~expired(bucket.value_)
             THEN resize_loop_drops_hash(old_buckets, i + 1,
                      insert_(acc.buckets, acc.size, 0, value))
             ELSE resize_loop_drops_hash(old_buckets, i + 1, acc)

\* a loop of resize_ that re-inserts nothing
resize_loop_keeps_nothing(old_buckets, i, acc) == acc

\* a loop of resize_ that re-inserts every used bucket, expired or not
RECURSIVE resize_loop_keeps_expired(_, _, _)
resize_loop_keeps_expired(old_buckets, i, acc) ==
    IF i = Capacity(old_buckets) \/ ~acc.returned
    THEN acc
    ELSE LET bucket == old_buckets[i]
         IN  IF bucket.used_
             THEN resize_loop_keeps_expired(old_buckets, i + 1,
                      insert_(acc.buckets, acc.size, bucket.hash_code_,
                              bucket.value_))
             ELSE resize_loop_keeps_expired(old_buckets, i + 1, acc)

\* the loop of resize_ over old_buckets, from index i on
RECURSIVE resize_loop(_, _, _)
resize_loop(old_buckets, i, acc) ==
    IF i = Capacity(old_buckets) \/ ~acc.returned
    THEN acc
    ELSE LET bucket == old_buckets[i]
             value == lock(bucket.value_)
         IN  IF bucket.used_ /\ ~expired(bucket.value_)
             THEN resize_loop(old_buckets, i + 1,
                      insert_(acc.buckets, acc.size, bucket.hash_code_, value))
             ELSE resize_loop(old_buckets, i + 1, acc)

\* fixed_vector::operator=(fixed_vector&&) swaps, clears its source and
\* flows off its end without a return statement: undefined behaviour, after
\* which a build either goes on as if it had returned *this or is lost
move_assign_outcomes == {"no", "undefined"}

\* a resize_ that forgets size_ = 0 before it re-inserts
resize_keeps_size(bk, sz, new_capacity) ==
    IF ~(new_capacity > sz)
    THEN [buckets |-> bk, size |-> sz, returned |-> FALSE,
          asserted |-> FALSE, moved |-> FALSE]
    ELSE LET r == resize_loop(bk, 0,
                      [buckets |-> NewBuckets(new_capacity), size |-> sz,
                       returned |-> TRUE])
         IN  [buckets |-> r.buckets, size |-> r.size,
              returned |-> r.returned, asserted |-> TRUE, moved |-> TRUE]

\* resize_: [buckets, size, returned, asserted, moved]; asserted is the
\* outcome of assert(new_capacity > size_); moved tells that std::swap ran,
\* that is one move construction and two move assignments of fixed_vector,
\* which leave the new buffer in buckets_ and the old one in old_buckets
resize_(bk, sz, new_capacity) ==
    IF ~(new_capacity > sz)
    THEN [buckets |-> bk, size |-> sz, returned |-> FALSE,
          asserted |-> FALSE, moved |-> FALSE]
    ELSE LET r == resize_loop(bk, 0,
                      [buckets |-> NewBuckets(new_capacity), size |-> 0,
                       returned |-> TRUE])
         IN  [buckets |-> r.buckets, size |-> r.size,
              returned |-> r.returned, asserted |-> TRUE, moved |-> TRUE]

\* a growth test that never asks for more buckets
needs_growth_never(bk, sz) == FALSE

\* a growth test that asks for more buckets only past a full table
needs_growth_too_late(bk, sz) == sz > Capacity(bk)

\* the test of maybe_grow_: double(size_)/double(cap) > grow_at_ratio
needs_growth_(bk, sz) ==
    sz * grow_at_ratio_den > grow_at_ratio_num * Capacity(bk)

\* a growth that forgets to double
grown_capacity_same(cap) == SizeT(cap)

\* the capacity maybe_grow_ asks resize_ for
grown_capacity_(cap) == SizeT(2 * cap)

maybe_grow_(bk, sz) ==
    IF needs_growth_(bk, sz)
    THEN resize_(bk, sz, grown_capacity_(Capacity(bk)))
    ELSE [buckets |-> bk, size |-> sz, returned |-> TRUE,
          asserted |-> TRUE, moved |-> FALSE]

\* insert(value): insert_ then maybe_grow_
insert(bk, sz, value) ==
    LET r == insert_(bk, sz, hash_(key(value)), value)
    IN  IF r.returned
        THEN maybe_grow_(r.buckets, r.size)
        ELSE [buckets |-> r.buckets, size |-> r.size,
              returned |-> FALSE, asserted |-> TRUE, moved |-> FALSE]

\* ----------------------------------------------------------------- lookup
\* the loop of rh_weak_hash_table::lookup_.  The declaration
\* 'const auto* key = weak_trait::key(locked)' hides the parameter key, so
\* equal_ compares the locked value with its own key
RECURSIVE lookup_loop(_, _, _, _, _)
lookup_loop(bk, hash_code, pos, dist, fuel) ==
    LET bucket == bk[pos]
        locked == lock(bucket.value_)
        inner_key == key(locked)
    IN  IF fuel = 0
        THEN [found |-> FALSE, pos |-> pos, examined |-> dist,
              returned |-> FALSE]
        ELSE IF ~bucket.used_
        THEN [found |-> FALSE, pos |-> pos, examined |-> dist + 1,
              returned |-> TRUE]
        ELSE IF passed_(bk, pos, dist)
        THEN [found |-> FALSE, pos |-> pos, examined |-> dist + 1,
              returned |-> TRUE]
        ELSE IF hash_code = bucket.hash_code_
                /\ inner_key # NoKey
                /\ equal_(key_of(locked), inner_key)
        THEN [found |-> TRUE, pos |-> pos, examined |-> dist + 1,
              returned |-> TRUE]
        ELSE lookup_loop(bk, hash_code, next_bucket_(bk, pos), dist + 1,
                         fuel - 1)

lookup_(bk, k) ==
    lookup_loop(bk, hash_(k), which_bucket_(bk, hash_(k)), 0, Fuel(bk))

\* member(key): lookup_(key) != nullptr
member(bk, k) == lookup_(bk, k).found

\* the loop of rh_weak_unordered_set::lookup_, which compares the locked
\* value with the key asked for
RECURSIVE set_lookup_loop(_, _, _, _, _, _)
set_lookup_loop(bk, k, hash_code, pos, dist, fuel) ==
    LET bucket == bk[pos]
        locked == lock(bucket.value_)
    IN  IF fuel = 0
        THEN [found |-> FALSE, pos |-> pos, examined |-> dist,
              returned |-> FALSE]
        ELSE IF ~bucket.used_
        THEN [found |-> FALSE, pos |-> pos, examined |-> dist + 1,
              returned |-> TRUE]
        ELSE IF passed_(bk, pos, dist)
        THEN [found |-> FALSE, pos |-> pos, examined |-> dist + 1,
              returned |-> TRUE]
        ELSE IF hash_code = bucket.hash_code_
                /\ locked # NoValue
                /\ equal_(key_of(locked), k)
        THEN [found |-> TRUE, pos |-> pos, examined |-> dist + 1,
              returned |-> TRUE]
        ELSE set_lookup_loop(bk, k, hash_code, next_bucket_(bk, pos),
                             dist + 1, fuel - 1)

set_lookup_(bk, k) ==
    set_lookup_loop(bk, k, hash_(k), which_bucket_(bk, hash_(k)), 0, Fuel(bk))

\* rh_weak_unordered_set::member
set_member(bk, k) == set_lookup_(bk, k).found

\* -------------------------------------------------------------- iteration
\* iterator::find_next_: skip buckets that are not occupied()
RECURSIVE find_next_(_, _)
find_next_(bk, base) ==
    IF base # Capacity(bk) /\ ~occupied(bk[base])
    THEN find_next_(bk, base + 1)
    ELSE base

\* begin(): iterator(buckets_.begin(), buckets_.end())
begin(bk) == find_next_(bk, 0)

\* end(): iterator(buckets_.end(), buckets_.end())
end(bk) == find_next_(bk, Capacity(bk))

\* operator++: ++base_, find_next_()
increment(bk, base) == find_next_(bk, base + 1)

\* operator*: base_->value_.lock()
dereference(bk, base) == lock(bk[base].value_)

\* for (auto ptr : set) actual.push_back(*ptr), from iterator it on
RECURSIVE range_for(_, _, _)
range_for(bk, it, acc) ==
    IF it = end(bk)
    THEN acc
    ELSE range_for(bk, increment(bk, it), Append(acc, dereference(bk, it)))

\* ------------------------------------------------------------ fixed_vector
\* the names of the fixed_vector<int> objects the client declares
VecNames == {"a", "b"}

\* the values of the element type int the client stores
Elements == 0..MaxElement

\* T(): a value-initialised int
T_default == 0

\* a name whose object is not constructed yet; data_ lists the constructed
\* slots of the allocation the pointer data_ refers to
Unborn == [life |-> "unborn", size_ |-> 0, data_ |-> <<>>]

\* an allocate_ that drops the example element it was handed
allocate_default_only(count, args) == [i \in 1..count |-> T_default]

\* allocate_(allocator, size, args...): every slot constructed as T(args...)
allocate_(count, args) ==
    [i \in 1..count |-> IF args = <<>> THEN T_default ELSE args[1]]

\* fixed_vector(size) and fixed_vector(size, element): args is <<>> or <<e>>
fixed_vector(count, args) ==
    [life |-> "alive", size_ |-> count, data_ |-> allocate_(count, args)]

\* a default constructor that asks for one slot
default_fixed_vector_of_one == fixed_vector(1, <<>>)

\* fixed_vector(): fixed_vector(0)
default_fixed_vector == fixed_vector(0, <<>>)

\* fixed_vector::size
size(v) == v.size_

\* fixed_vector::empty
empty(v) == v.size_ = 0

\* a swap that exchanges the data pointers and forgets the sizes
swap_data_only(this, other) ==
    [this |-> [this EXCEPT !.data_ = other.data_],
     other |-> [other EXCEPT !.data_ = this.data_]]

\* fixed_vector::swap: size_ and data_ change sides (life stays: the objects
\* do not)
swap(this, other) ==
    [this |-> [this EXCEPT !.size_ = other.size_, !.data_ = other.data_],
     other |-> [other EXCEPT !.size_ = this.size_, !.data_ = this.data_]]

\* deallocate_ destroys data_[0..size_-1] and releases size_ slots: defined
\* only when size_ is the number of slots constructed behind data_
deallocate_defined(v) == v.size_ = Len(v.data_)

\* fixed_vector::clear: [vec, defined].  size_ is not assigned
clear(v) ==
    IF v.size_ # 0
    THEN [vec |-> [v EXCEPT !.data_ = allocate_(0, <<>>)],
          defined |-> deallocate_defined(v)]
    ELSE [vec |-> v, defined |-> TRUE]

\* fixed_vector(fixed_vector&& other): fixed_vector() then swap(other)
move_construct(other) == swap(default_fixed_vector, other)

\* operator=(fixed_vector&& other): swap(other), other.clear(), and no
\* return statement: [this, other, defined]
move_assign(this, other) ==
    LET swapped == swap(this, other)
        cleared == clear(swapped.other)
    IN  [this |-> swapped.this, other |-> cleared.vec, defined |-> FALSE]

\* ~fixed_vector: deallocate_()
destroy(v) ==
    [vec |-> [life |-> "dead", size_ |-> 0, data_ |-> <<>>],
     defined |-> deallocate_defined(v)]

\* data_[index]: the values a read of slot index can give; outside the
\* allocation the read is undefined and gives any value
subscript(v, index) ==
    IF index < Len(v.data_) THEN {v.data_[index + 1]} ELSE Elements

\* the test of at: index >= size_ throws std::range_error
at_throws(v, index) == index >= v.size_

\* data_[index] = element: outside the allocation the write is undefined
subscript_assign(v, index, element) ==
    IF index < Len(v.data_)
    THEN [vec |-> [v EXCEPT !.data_[index + 1] = element], defined |-> TRUE]
    ELSE [vec |-> v, defined |-> FALSE]

\* what undefined behaviour can end in: the build goes on, or the run is lost
Outcomes(defined) == IF defined THEN {"no"} ELSE move_assign_outcomes

\* no fixed_vector call has been made yet
NoCall ==
    [op |-> "none", this |-> "a", other |-> "a", index |-> 0,
     before |-> [n \in VecNames |-> Unborn], thrown |-> FALSE, value |-> 0]

\* the record of a call: the vectors before it and what it gave
Call(op, this, other, index, thrown, value) ==
    [op |-> op, this |-> this, other |-> other, index |-> index,
     before |-> vecs, thrown |-> thrown, value |-> value]

\* ---------------------------------------------------------------- actions
\* no fixed_vector object is declared outside the table
VecIdle ==
    /\ vecs = [n \in VecNames |-> Unborn]
    /\ vec_last = NoCall
    /\ vec_halted = "no"

\* no iterator declared
NoIter == [state |-> "none", base_ |-> 0, limit_ |-> 0]

\* no strong pair made: two null pointers
NoPair == [first |-> NoValue, second |-> NoValue]

\* a client that holds no iterator and keeps no record of its inserts
ClientIdle ==
    /\ iter = NoIter
    /\ inserted = [k \in Keys |-> NoValue]
    /\ pair = NoPair

Init ==
    /\ client_hash \in HashFns
    /\ \E capacity \in InitialCapacities : buckets_ = NewBuckets(capacity)
    /\ size_ = 0
    /\ refs = [v \in Values |-> IF v = 1 THEN 2 ELSE 1]
    /\ halted = "no"
    /\ traversed = FALSE
    /\ yielded = <<>>
    /\ VecIdle
    /\ ClientIdle

\* insert(v) called by a client that owns v: what it does to the table
insert_call(v) ==
    /\ halted = "no"
    /\ refs[v] > 0
    /\ LET r == insert(buckets_, size_, v)
       IN  /\ buckets_' = r.buckets
           /\ size_' = r.size
           /\ halted' \in IF ~r.asserted THEN {"assert"}
                          ELSE IF ~r.returned THEN {"hang"}
                          ELSE IF r.moved THEN move_assign_outcomes
                          ELSE {"no"}
    /\ traversed' = FALSE
    /\ yielded' = <<>>
    /\ UNCHANGED <<client_hash, refs>>
    /\ UNCHANGED vec_vars

\* a client that owns v calls insert(v)
Insert(v) == insert_call(v) /\ UNCHANGED <<iter, inserted, pair>>

\* a client drops a shared_ptr it owns; the last drop destroys the object
Drop(v) ==
    /\ halted = "no"
    /\ refs[v] > 0
    /\ refs' = [refs EXCEPT ![v] = @ - 1]
    /\ traversed' = FALSE
    /\ yielded' = <<>>
    /\ UNCHANGED <<client_hash, buckets_, size_, halted>>
    /\ UNCHANGED <<vec_vars, iter, inserted, pair>>

\* a client calls member(k): a const method, nothing is assigned
Member(k) ==
    /\ halted = "no"
    /\ member(buckets_, k) \in BOOLEAN
    /\ UNCHANGED vars

\* a client runs a range-for over the table and keeps what it yields
Traverse ==
    /\ halted = "no"
    /\ ~traversed
    /\ traversed' = TRUE
    /\ yielded' = range_for(buckets_, begin(buckets_), <<>>)
    /\ UNCHANGED <<client_hash, buckets_, size_, refs, halted>>
    /\ UNCHANGED <<vec_vars, iter, inserted, pair>>

Next ==
    \/ \E v \in Values : Insert(v)
    \/ \E v \in Values : Drop(v)
    \/ \E k \in Keys : Member(k)
    \/ Traverse

Spec == Init /\ [][Next]_vars

\* ------------------------------------------------- actions on fixed_vector
\* a table nobody calls, next to the fixed_vector objects
TableIdle ==
    /\ client_hash = [k \in Keys |-> SizeT(k)]
    /\ buckets_ = NewBuckets(1)
    /\ size_ = 0
    /\ refs = [v \in Values |-> 1]
    /\ halted = "no"
    /\ traversed = FALSE
    /\ yielded = <<>>
    /\ ClientIdle

VecInit == TableIdle /\ VecIdle

\* fixed_vector<int> x(count);
VecConstruct(x, count) ==
    /\ vec_halted = "no"
    /\ vecs[x].life = "unborn"
    /\ vecs' = [vecs EXCEPT ![x] = fixed_vector(count, <<>>)]
    /\ vec_last' = Call("construct", x, x, count, FALSE, T_default)
    /\ UNCHANGED <<vec_halted, table_vars>>

\* fixed_vector<int> x(count, element);
VecConstructFill(x, count, element) ==
    /\ vec_halted = "no"
    /\ vecs[x].life = "unborn"
    /\ vecs' = [vecs EXCEPT ![x] = fixed_vector(count, <<element>>)]
    /\ vec_last' = Call("construct_fill", x, x, count, FALSE, element)
    /\ UNCHANGED <<vec_halted, table_vars>>

\* fixed_vector<int> x;
VecDefault(x) ==
    /\ vec_halted = "no"
    /\ vecs[x].life = "unborn"
    /\ vecs' = [vecs EXCEPT ![x] = default_fixed_vector]
    /\ vec_last' = Call("default", x, x, 0, FALSE, T_default)
    /\ UNCHANGED <<vec_halted, table_vars>>

\* fixed_vector<int> x(std::move(s));
VecMoveConstruct(x, s) ==
    /\ vec_halted = "no"
    /\ vecs[x].life = "unborn"
    /\ vecs[s].life = "alive"
    /\ LET r == move_construct(vecs[s])
       IN  vecs' = [vecs EXCEPT ![x] = r.this, ![s] = r.other]
    /\ vec_last' = Call("move_construct", x, s, 0, FALSE, 0)
    /\ UNCHANGED <<vec_halted, table_vars>>

\* x = std::move(s);
VecMoveAssign(x, s) ==
    /\ vec_halted = "no"
    /\ x # s
    /\ vecs[x].life = "alive"
    /\ vecs[s].life = "alive"
    /\ LET r == move_assign(vecs[x], vecs[s])
       IN  /\ vecs' = [vecs EXCEPT ![x] = r.this, ![s] = r.other]
           /\ vec_halted' \in Outcomes(r.defined)
    /\ vec_last' = Call("move_assign", x, s, 0, FALSE, 0)
    /\ UNCHANGED table_vars

\* x.swap(y);
VecSwap(x, y) ==
    /\ vec_halted = "no"
    /\ x # y
    /\ vecs[x].life = "alive"
    /\ vecs[y].life = "alive"
    /\ LET r == swap(vecs[x], vecs[y])
       IN  vecs' = [vecs EXCEPT ![x] = r.this, ![y] = r.other]
    /\ vec_last' = Call("swap", x, y, 0, FALSE, 0)
    /\ UNCHANGED <<vec_halted, table_vars>>

\* x.clear();
VecClear(x) ==
    /\ vec_halted = "no"
    /\ vecs[x].life = "alive"
    /\ LET r == clear(vecs[x])
       IN  /\ vecs' = [vecs EXCEPT ![x] = r.vec]
           /\ vec_halted' \in Outcomes(r.defined)
    /\ vec_last' = Call("clear", x, x, 0, FALSE, 0)
    /\ UNCHANGED table_vars

\* x.at(index), read
VecAt(x, index) ==
    /\ vec_halted = "no"
    /\ vecs[x].life = "alive"
    /\ IF at_throws(vecs[x], index)
       THEN /\ vec_last' = Call("at", x, x, index, TRUE, 0)
            /\ vec_halted' = "no"
       ELSE /\ \E value \in subscript(vecs[x], index) :
                  vec_last' = Call("at", x, x, index, FALSE, value)
            /\ vec_halted' \in Outcomes(index < Len(vecs[x].data_))
    /\ UNCHANGED <<vecs, table_vars>>

\* x.at(index) = element
VecAssign(x, index, element) ==
    /\ vec_halted = "no"
    /\ vecs[x].life = "alive"
    /\ IF at_throws(vecs[x], index)
       THEN /\ vec_last' = Call("assign", x, x, index, TRUE, element)
            /\ vec_halted' = "no"
            /\ UNCHANGED vecs
       ELSE LET r == subscript_assign(vecs[x], index, element)
            IN  /\ vecs' = [vecs EXCEPT ![x] = r.vec]
                /\ vec_last' = Call("assign", x, x, index, FALSE, element)
                /\ vec_halted' \in Outcomes(r.defined)
    /\ UNCHANGED table_vars

\* x goes out of scope
VecDestroy(x) ==
    /\ vec_halted = "no"
    /\ vecs[x].life = "alive"
    /\ LET r == destroy(vecs[x])
       IN  /\ vecs' = [vecs EXCEPT ![x] = r.vec]
           /\ vec_halted' \in Outcomes(r.defined)
    /\ vec_last' = Call("destroy", x, x, 0, FALSE, 0)
    /\ UNCHANGED table_vars

VecNext ==
    \/ \E x \in VecNames, count \in 0..MaxVecSize : VecConstruct(x, count)
    \/ \E x \in VecNames, count \in 0..MaxVecSize, element \in Elements :
          VecConstructFill(x, count, element)
    \/ \E x \in VecNames : VecDefault(x)
    \/ \E x, s \in VecNames : VecMoveConstruct(x, s)
    \/ \E x, s \in VecNames : VecMoveAssign(x, s)
    \/ \E x, y \in VecNames : VecSwap(x, y)
    \/ \E x \in VecNames : VecClear(x)
    \/ \E x \in VecNames, index \in 0..(MaxVecSize + 1) : VecAt(x, index)
    \/ \E x \in VecNames, index \in 0..(MaxVecSize + 1), element \in Elements :
          VecAssign(x, index, element)
    \/ \E x \in VecNames : VecDestroy(x)

VecSpec == VecInit /\ [][VecNext]_vars

\* ------------------------------------------------- the table, as observed
Cap == Capacity(buckets_)

Positions == DOMAIN buckets_

\* value v has an external strong owner
Owned(v) == v \in Values /\ refs[v] > 0

\* the buckets that are used and whose value is owned: its handle locks
LivePositions ==
    {p \in Positions : buckets_[p].used_ /\ Owned(buckets_[p].value_)}

\* the used buckets whose value is no longer owned
ExpiredPositions ==
    {p \in Positions : buckets_[p].used_ /\ ~Owned(buckets_[p].value_)}

\* the live buckets that hold a value with key k
LivePositionsOf(k) ==
    {p \in LivePositions : equal_(key_of(buckets_[p].value_), k)}

\* value v is held by a used bucket
Stored(v) == \E p \in Positions : buckets_[p].used_ /\ buckets_[p].value_ = v

IsMember(k) == member(buckets_, k)

IsSetMember(k) == set_member(buckets_, k)

\* the distance of the bucket at p from its ideal slot
DistanceAt(p) ==
    probe_distance_(buckets_, p, which_bucket_(buckets_, buckets_[p].hash_code_))

\* --------------------------------------------------------------------- C1
\* C1 (insert-then-member): in every reachable state, for every value v that
\* a client owns, the table insert(v) returns with has member(key_of(v))
\* true, whether the insert claimed, overwrote, replaced, displaced or grew;
\* the same for the member of rh_weak_unordered_set.
C1_InsertThenMember ==
    \A v \in Values :
        Owned(v) =>
            LET r == insert(buckets_, size_, v)
            IN  (r.returned /\ r.asserted) =>
                    /\ member(r.buckets, key_of(v))
                    /\ set_member(r.buckets, key_of(v))

\* a grown table with an expired bucket in which a live value sits away from
\* its ideal slot and is found
C1_Witness ==
    /\ halted = "no"
    /\ \A c \in InitialCapacities : Cap > c
    /\ ExpiredPositions # {}
    /\ \E p \in LivePositions :
          /\ DistanceAt(p) >= 2
          /\ IsMember(key_of(buckets_[p].value_))
          /\ IsSetMember(key_of(buckets_[p].value_))

\* --------------------------------------------------------------------- C2
\* what a range-for over the table would collect in this state
Iteration == range_for(buckets_, begin(buckets_), <<>>)

Range(seq) == {seq[i] : i \in 1..Len(seq)}

\* no live bucket holds another value whose key equals that of v
NoOtherLiveEqual(v) ==
    \A p \in LivePositions :
        buckets_[p].value_ = v \/ ~equal_(key_of(buckets_[p].value_), key_of(v))

\* C2 (expiry invisibility): when the last external owner of a stored value v
\* drops it (and no other live stored value has an equal key), then right
\* after the drop member(key_of(v)) is false, iteration does not yield v, and
\* size() is what it was.
C2_ExpiryInvisible ==
    [][\A v \in Values :
          (Drop(v) /\ refs'[v] = 0 /\ Stored(v) /\ NoOtherLiveEqual(v))
              => /\ ~IsMember(key_of(v))'
                 /\ v \notin Range(Iteration)'
                 /\ size_' = size_]_vars

\* --------------------------------------------------------------------- C3
\* C3 (member is sound): member(k) is true only if some used bucket stores
\* the masked hash of k and its handle locks to a value whose key equals k;
\* so member(k) is false for a key equal to no live stored entry, whatever
\* the hash function.
C3_MemberOnlyIfEqualLive ==
    \A k \in Keys :
        IsMember(k) =>
            \E p \in Positions :
                /\ buckets_[p].used_
                /\ buckets_[p].hash_code_ = hash_(k)
                /\ lock(buckets_[p].value_) # NoValue
                /\ equal_(key_of(lock(buckets_[p].value_)), k)

\* --------------------------------------------------------------------- C4
\* C4 (replace on equal key): when insert(v2) returns and a live bucket held
\* another value v1 with the key of v2 before the call, then exactly one live
\* bucket holds that key afterwards, and the value it holds is v2.
C4_ReplaceOnEqualKey ==
    [][\A v2 \in Values :
          (/\ Insert(v2)
           /\ halted' = "no"
           /\ \E p \in LivePositionsOf(key_of(v2)) : buckets_[p].value_ # v2)
              => /\ Cardinality(LivePositionsOf(key_of(v2)))' = 1
                 /\ \A p \in LivePositionsOf(key_of(v2))' :
                        buckets_'[p].value_ = v2]_vars

\* --------------------------------------------------------------------- C5
\* the keys of the values held by live buckets
StoredLiveKeys == {key_of(buckets_[p].value_) : p \in LivePositions}

\* the keys of what a range-for collected
KeysOf(seq) == {key_of(seq[i]) : i \in 1..Len(seq)}

\* the table has grown at least once
HasGrown == \A c \in InitialCapacities : Cap > c

\* C5 (growth preserves membership): in a table that has grown, every key
\* held by a live bucket is a member, and a range-for yields the keys of the
\* live values, each exactly once.
C5_GrowthPreservesMembership ==
    HasGrown =>
        /\ \A k \in StoredLiveKeys : IsMember(k)
        /\ traversed =>
              /\ KeysOf(yielded) = StoredLiveKeys
              /\ Len(yielded) = Cardinality(StoredLiveKeys)

\* --------------------------------------------------------------------- C6
\* the i-th live position in increasing order
NthLive(i) ==
    CHOOSE p \in LivePositions :
        Cardinality({q \in LivePositions : q < p}) = i - 1

\* C6 (traversal): a range-for with nothing in between yields the values of
\* the buckets that are used and not expired, each once, in increasing bucket
\* order; begin() = end() exactly when there is no such bucket.
C6_TraversalYieldsLive ==
    /\ traversed =>
          /\ Len(yielded) = Cardinality(LivePositions)
          /\ \A i \in 1..Len(yielded) :
                yielded[i] = buckets_[NthLive(i)].value_
    /\ (begin(buckets_) = end(buckets_)) <=> (LivePositions = {})

\* a traversal that yielded two values and skipped an unused bucket and an
\* expired one that lie before a live one
C6_Witness ==
    /\ traversed
    /\ Len(yielded) >= 2
    /\ \E p \in LivePositions :
          /\ \E q \in ExpiredPositions : q < p
          /\ \E q \in Positions : q < p /\ ~buckets_[q].used_

\* --------------------------------------------------------------------- C7
\* C7 (size over-approximates): size() is at least the number of buckets
\* that are used and still lock, and empty() only if there is none.
C7_SizeOverApproximates ==
    /\ size_ >= Cardinality(LivePositions)
    /\ (size_ = 0) => (LivePositions = {})

\* size() counts a bucket whose value has expired, next to live ones
C7_Witness ==
    /\ size_ > Cardinality(LivePositions)
    /\ LivePositions # {}

\* --------------------------------------------------------------------- C8
\* C8 (the table keeps nothing alive): a handle is expired exactly when its
\* value has no external owner, through every step; and for a stored value
\* that is a member, dropping an owner that is not the last leaves it a
\* member, and dropping the last one (no other live stored value having an
\* equal key) makes member(key_of(v)) false.
C8_TableKeepsNothingAlive ==
    [][\A v \in Values :
          /\ (~expired(v))' <=> Owned(v)'
          /\ (Drop(v) /\ Stored(v) /\ IsMember(key_of(v)))
                => /\ Owned(v)' => IsMember(key_of(v))'
                   /\ (~Owned(v)' /\ NoOtherLiveEqual(v))
                         => ~IsMember(key_of(v))']_vars

\* --------------------------------------------------------------------- C9
\* the d-th bucket of the probe sequence of key k
ProbePos(k, d) == (which_bucket_(buckets_, hash_(k)) + d) % Cap

\* the bucket a search for k meets at distance d is unused, or nearer to its
\* own ideal slot than d
StopsAt(k, d) ==
    \/ ~buckets_[ProbePos(k, d)].used_
    \/ DistanceAt(ProbePos(k, d)) < d

\* C9 (probe-bounded lookup, termination): no insert runs for ever; every
\* lookup returns after examining at most capacity buckets, and one that
\* finds nothing stops at the first bucket of its probe sequence that is
\* unused or nearer to its ideal slot than the search is.
C9_ProbeBounded ==
    /\ halted # "hang"
    /\ \A k \in Keys :
          LET r == lookup_(buckets_, k)
          IN  /\ r.returned
              /\ r.examined <= Cap
              /\ ~r.found =>
                    /\ StopsAt(k, r.examined - 1)
                    /\ \A d \in 0..(r.examined - 2) : ~StopsAt(k, d)

\* a search that walks over an expired bucket and is then stopped by a used
\* bucket that is nearer to its ideal slot
C9_Witness ==
    /\ halted = "no"
    /\ \E k \in Keys :
          LET r == lookup_(buckets_, k)
          IN  /\ ~r.found
              /\ r.examined >= 2
              /\ buckets_[ProbePos(k, r.examined - 1)].used_
              /\ \E d \in 0..(r.examined - 2) :
                    ProbePos(k, d) \in ExpiredPositions

\* -------------------------------------------------------------------- C10
\* C10 (growth doubles): every step leaves the capacity as it is or doubles
\* it, and never fails the assertion of resize_ that the new capacity
\* exceeds the recorded size.
C10_GrowthDoubles ==
    [][(Cap' = Cap \/ Cap' = 2 * Cap) /\ halted' # "assert"]_vars

\* a table that has doubled at least twice
C10_Witness ==
    /\ halted = "no"
    /\ \A c \in InitialCapacities : Cap > 2 * c
    /\ size_ >= 1

\* -------------------------------------------------------------------- C17
\* the number of buckets of bk whose used flag is set
UsedCount(bk) == Cardinality({p \in DOMAIN bk : bk[p].used_})

\* the probe walk of insert(v) from this state, before any growth
Walk(v) == insert_(buckets_, size_, hash_(key(v)), v)

\* the number of used buckets of bk whose value has no owner left
ExpiredCount(bk) ==
    Cardinality({p \in DOMAIN bk : bk[p].used_ /\ ~Owned(bk[p].value_)})

\* the walk that left w ended by setting the used flag of an unused bucket
ClaimsUnused(w) == UsedCount(w.buckets) = UsedCount(buckets_) + 1

\* the walk that left w ended by storing into a bucket whose value expired,
\* be it the inserted value or a value the walk displaced
OverwritesExpired(w) ==
    /\ UsedCount(w.buckets) = UsedCount(buckets_)
    /\ ExpiredCount(w.buckets) = ExpiredCount(buckets_) - 1

\* the walk that left w ended by replacing the handle of a live bucket that
\* holds an equal key
ReplacesEqual(w) ==
    /\ UsedCount(w.buckets) = UsedCount(buckets_)
    /\ ExpiredCount(w.buckets) = ExpiredCount(buckets_)

\* C17 (size accounting of the probe walk): from every reachable state, the
\* walk of insert(v), before any growth, ends in one of three ways; it adds
\* exactly 1 to the size counter when it ends by claiming an unused bucket,
\* and leaves the counter as it is when it ends by overwriting an expired
\* bucket or by replacing the handle of a live bucket with an equal key.
C17_SizeAccounting ==
    \A v \in Values :
        Owned(v) =>
            LET w == Walk(v)
            IN  w.returned =>
                    /\ ClaimsUnused(w) \/ OverwritesExpired(w) \/ ReplacesEqual(w)
                    /\ ClaimsUnused(w) => w.size = size_ + 1
                    /\ OverwritesExpired(w) => w.size = size_
                    /\ ReplacesEqual(w) => w.size = size_

\* a state from which one insert would claim an unused bucket, another would
\* overwrite an expired one and a third would replace the handle of a live
\* bucket with an equal key
C17_Witness ==
    /\ halted = "no"
    /\ \E v \in Values : Owned(v) /\ ClaimsUnused(Walk(v))
    /\ \E v \in Values : Owned(v) /\ OverwritesExpired(Walk(v))
    /\ \E v \in Values :
          /\ Owned(v)
          /\ ReplacesEqual(Walk(v))
          /\ LivePositionsOf(key_of(v)) # {}

\* -------------------------------------------------------------------- C18
\* C18 (load-factor invariant): in every state between operations of a table
\* constructed with capacity >= 1, size() is at most 0.75 * capacity and at
\* least one bucket is unused or expired; and whenever an insert returns,
\* the one doubling it may have made is enough: the growth test is false of
\* the buffer and the size it leaves.
C18_LoadFactor ==
    /\ halted = "no" =>
          /\ size_ * grow_at_ratio_den <= grow_at_ratio_num * Cap
          /\ \E p \in Positions :
                ~buckets_[p].used_ \/ ~Owned(buckets_[p].value_)
    /\ \A v \in Values :
          Owned(v) =>
              LET r == insert(buckets_, size_, v)
              IN  (r.returned /\ r.asserted) =>
                      ~needs_growth_(r.buckets, r.size)

\* a table that has grown, holds no expired bucket and is filled to exactly
\* 0.75 of its capacity
C18_Witness ==
    /\ halted = "no"
    /\ HasGrown
    /\ ExpiredPositions = {}
    /\ size_ * grow_at_ratio_den = grow_at_ratio_num * Cap

\* -------------------------------------------------------------------- C19
\* a client hasher that spreads colliding keys over two ideal slots: keys
\* 1 and 2 share code 0, the keys after them share code 2
SpreadHashFns == { [k \in Keys |-> SizeT(2 * (k \div 3))] }

\* the table constructed with such a hasher
SpreadInit ==
    /\ client_hash \in SpreadHashFns
    /\ \E capacity \in InitialCapacities : buckets_ = NewBuckets(capacity)
    /\ size_ = 0
    /\ refs = [v \in Values |-> IF v = 1 THEN 2 ELSE 1]
    /\ halted = "no"
    /\ traversed = FALSE
    /\ yielded = <<>>
    /\ VecIdle
    /\ ClientIdle

SpreadSpec == SpreadInit /\ [][Next]_vars

\* the ideal slot of the bucket at pos, and how far the bucket is from it
IdealSlot(bk, pos) == which_bucket_(bk, bk[pos].hash_code_)

Distance(bk, pos) == probe_distance_(bk, pos, IdealSlot(bk, pos))

\* the slot met i steps forward of slot start
Forward(bk, start, i) == (start + i) % Capacity(bk)

\* scanning forward from slot start, the distances of the populated buckets
\* met before the first unused or expired one never decrease
NonDecreasingFrom(bk, start) ==
    \A i \in 1..(Capacity(bk) - 1) :
        (\A j \in 0..i : occupied(bk[Forward(bk, start, j)])) =>
            Distance(bk, Forward(bk, start, i))
                >= Distance(bk, Forward(bk, start, i - 1))

\* C19 (Robin Hood invariant at insertion time): immediately after an insert
\* that returns, for every populated bucket B, the probe distances of the
\* buckets met when scanning forward from B's ideal slot are non-decreasing
\* until an unused or expired bucket is met.
C19_RobinHoodAtInsertion ==
    \A v \in Values :
        Owned(v) =>
            LET r == insert(buckets_, size_, v)
            IN  (r.returned /\ r.asserted) =>
                    \A pos \in DOMAIN r.buckets :
                        occupied(r.buckets[pos]) =>
                            NonDecreasingFrom(r.buckets,
                                              IdealSlot(r.buckets, pos))

\* -------------------------------------------------------------------- C20
\* the keys of the live buckets of bk
LiveKeysIn(bk) == {key(lock(bk[p].value_)) : p \in {q \in DOMAIN bk : occupied(bk[q])}}

\* bk holds a used bucket whose handle no longer locks
HoldsExpired(bk) == \E p \in DOMAIN bk : bk[p].used_ /\ expired(bk[p].value_)

\* bk holds two live buckets with equal keys
HoldsEqualKeys(bk) ==
    \E p, q \in DOMAIN bk :
        /\ p # q
        /\ occupied(bk[p])
        /\ occupied(bk[q])
        /\ equal_(key(lock(bk[p].value_)), key(lock(bk[q].value_)))

\* C20 (growth rebuilds without dead entries): whenever an insert grows the
\* table and returns, every used bucket of the new buffer holds a handle that
\* locks, no two used buckets hold equal keys, size() equals the number of
\* used buckets, and every key that was live in the old buffer is a member.
C20_GrowthRebuilds ==
    \A v \in Values :
        Owned(v) =>
            LET r == insert(buckets_, size_, v)
            IN  (r.moved /\ r.returned /\ r.asserted) =>
                    /\ ~HoldsExpired(r.buckets)
                    /\ ~HoldsEqualKeys(r.buckets)
                    /\ r.size = UsedCount(r.buckets)
                    /\ \A k \in LiveKeysIn(Walk(v).buckets) :
                          /\ member(r.buckets, k)
                          /\ set_member(r.buckets, k)

\* a state from which an insert grows a buffer that holds an expired bucket
\* and two live buckets with equal keys
C20_Witness ==
    /\ halted = "no"
    /\ \E v \in Values :
          /\ Owned(v)
          /\ insert(buckets_, size_, v).moved
          /\ insert(buckets_, size_, v).returned
          /\ HoldsExpired(Walk(v).buckets)
          /\ HoldsEqualKeys(Walk(v).buckets)

\* ------------------------------------------------- steps of an iterator
\* auto it = table.begin();
IterBegin ==
    /\ halted = "no"
    /\ iter' = [state |-> "valid", base_ |-> begin(buckets_),
                limit_ |-> Capacity(buckets_)]
    /\ UNCHANGED <<client_hash, buckets_, size_, refs, halted, traversed,
                   yielded, inserted, pair, vec_vars>>

\* ++it, on an iterator that is not at its limit
IterIncrement ==
    /\ halted = "no"
    /\ iter.state = "valid"
    /\ iter.base_ # iter.limit_
    /\ iter' = [iter EXCEPT !.base_ = increment(buckets_, iter.base_)]
    /\ UNCHANGED <<client_hash, buckets_, size_, refs, halted, traversed,
                   yielded, inserted, pair, vec_vars>>

\* *it, on an iterator that is not at its limit: a const method that
\* returns a locked copy, nothing is assigned
IterDereference ==
    /\ halted = "no"
    /\ iter.state = "valid"
    /\ iter.base_ # iter.limit_
    /\ dereference(buckets_, iter.base_) \in Values \cup {NoValue}
    /\ UNCHANGED vars

\* ++it or *it after a growth released the buffer base_ points into: a read
\* of released memory, undefined behaviour
IterUseReleased ==
    /\ halted = "no"
    /\ iter.state = "released"
    /\ halted' = "undefined"
    /\ UNCHANGED <<client_hash, buckets_, size_, refs, traversed, yielded,
                   iter, inserted, pair, vec_vars>>

\* insert(v) while the client holds an iterator: a growth destroys the old
\* buffer (old_buckets goes out of scope in resize_) under the iterator
IterInsert(v) ==
    /\ insert_call(v)
    /\ iter' = IF iter.state = "valid" /\ insert(buckets_, size_, v).moved
               THEN [iter EXCEPT !.state = "released"]
               ELSE iter
    /\ UNCHANGED <<inserted, pair>>

\* the values the client of the iterator owns, inserts and drops
MaxIterValue == 3

IterValues == 1..MaxIterValue

\* a table of two buckets under the colliding hasher, every value of the
\* client with one owner
IterInit ==
    /\ client_hash = [k \in Keys |-> k \div 4]
    /\ buckets_ = NewBuckets(2)
    /\ size_ = 0
    /\ refs = [v \in Values |-> IF v \in IterValues THEN 1 ELSE 0]
    /\ halted = "no"
    /\ traversed = FALSE
    /\ yielded = <<>>
    /\ VecIdle
    /\ ClientIdle

IterNext ==
    \/ \E v \in IterValues : IterInsert(v)
    \/ \E v \in IterValues : Drop(v)
    \/ \E k \in Keys : Member(k)
    \/ IterBegin
    \/ IterIncrement
    \/ IterDereference
    \/ IterUseReleased

IterSpec == IterInit /\ [][IterNext]_vars

\* -------------------------------------------------------------------- C21
\* C21 (iterator invariant): in every reachable state, also after external
\* strong references were dropped between iterator steps, an iterator that
\* is not equal to end() points at a bucket that is used and not expired,
\* and dereferencing it yields a non-empty strong view.
C21_IteratorInvariant ==
    (halted = "no" /\ iter.state = "valid" /\ iter.base_ # end(buckets_)) =>
        /\ occupied(buckets_[iter.base_])
        /\ dereference(buckets_, iter.base_) # NoValue

\* -------------------------------------------------------------------- C22
\* C22 (frame of the read-only and silent steps): a step in which a value
\* loses an owner, and a step that constructs or advances an iterator, leave
\* every bucket, the capacity and size() as they were (member() and
\* dereference assign nothing at all); and as long as the capacity is the
\* same, a bucket that is used stays used.
C22_SilentStepsFrame ==
    [][ /\ (refs' # refs \/ (iter' # iter /\ iter'.state = "valid")) =>
              /\ buckets_' = buckets_
              /\ size_' = size_
        /\ Capacity(buckets_') = Capacity(buckets_) =>
              \A p \in DOMAIN buckets_ :
                  buckets_[p].used_ => buckets_'[p].used_
      ]_vars

\* an iterator stands on a bucket while another bucket is used and expired
C22_Witness ==
    /\ halted = "no"
    /\ iter.state = "valid"
    /\ iter.base_ # iter.limit_
    /\ \E p \in DOMAIN buckets_ :
          /\ p # iter.base_
          /\ buckets_[p].used_
          /\ expired(buckets_[p].value_)

\* ------------------------------------------------ clients of weak pairs
\* a client makes a strong pair of two objects it owns; the weak handles of
\* the three shapes are built from it
PairMake(k, v) ==
    /\ halted = "no"
    /\ refs[k] > 0
    /\ refs[v] > 0
    /\ k # v
    /\ pair' = [first |-> k, second |-> v]
    /\ UNCHANGED <<client_hash, buckets_, size_, refs, halted, traversed,
                   yielded, iter, inserted, vec_vars>>

\* a client calls expired(), lock() and key() on the handles: const methods,
\* nothing is assigned
PairLock ==
    /\ halted = "no"
    /\ weak_pair_expired(weak_pair(pair)) \in BOOLEAN
    /\ weak_pair_key(weak_pair_lock(weak_pair(pair))) \in Keys \cup {NoKey}
    /\ UNCHANGED vars

PairInit == TableIdle /\ VecIdle

PairNext ==
    \/ \E k, v \in Values : PairMake(k, v)
    \/ \E v \in Values : Drop(v)
    \/ PairLock

PairSpec == PairInit /\ [][PairNext]_vars

\* the two objects of the strong pair, as the handles of the three shapes
\* see them: the pair with a copy of the value, and with a copy of the key
BothWeak == weak_pair(pair)

KeyWeak == weak_key_pair([first |-> pair.first, second |-> key_of(pair.second)])

ValueWeak ==
    weak_value_pair([first |-> key_of(pair.first), second |-> pair.second])

\* a pair was made; its key object, its value object has an owner left
PairMade == pair # NoPair

KeyAlive == pair.first \in Values /\ refs[pair.first] > 0

ValueAlive == pair.second \in Values /\ refs[pair.second] > 0

\* -------------------------------------------------------------------- C23
\* C23 (pair-both-weak handle): whatever the liveness of key and value,
\* expired() is true exactly when the key reference or the value reference
\* is expired, lock() yields the empty view if either component fails to
\* lock and both pointers otherwise, and key() of the locked view is the key
\* only if both components locked.
C23_PairBothWeak ==
    PairMade =>
        /\ weak_pair_expired(BothWeak) <=> (~KeyAlive \/ ~ValueAlive)
        /\ weak_pair_lock(BothWeak) =
              IF KeyAlive /\ ValueAlive THEN pair ELSE NullPair
        /\ weak_pair_key(weak_pair_lock(BothWeak)) =
              IF KeyAlive /\ ValueAlive THEN key_of(pair.first) ELSE NoKey

\* a pair whose key object is alive and whose value object is gone
C23_Witness == PairMade /\ KeyAlive /\ ~ValueAlive

\* -------------------------------------------------------------------- C24
\* the lone shape: a weak_ptr to the key object of the pair
Lone == pair.first

\* C24 (key-only-weak and value-only-weak pairs): the key-weak pair is
\* expired iff its key reference is expired and the value-weak pair is
\* expired iff its value reference is expired; in each of the two shapes and
\* in the lone shape, key() of lock() is null exactly when expired() is true.
C24_PairOneWeak ==
    PairMade =>
        /\ weak_key_pair_expired(KeyWeak) <=> ~KeyAlive
        /\ weak_value_pair_expired(ValueWeak) <=> ~ValueAlive
        /\ weak_key_pair_key(weak_key_pair_lock(KeyWeak)) = NoKey
              <=> weak_key_pair_expired(KeyWeak)
        /\ weak_value_pair_key(weak_value_pair_lock(ValueWeak)) = NoKey
              <=> weak_value_pair_expired(ValueWeak)
        /\ key(lock(Lone)) = NoKey <=> expired(Lone)
        /\ KeyAlive =>
              weak_key_pair_key(weak_key_pair_lock(KeyWeak))
                  = key_of(pair.first)
        /\ ValueAlive =>
              weak_value_pair_key(weak_value_pair_lock(ValueWeak))
                  = key_of(pair.first)

\* a pair whose key object is gone and whose value object is alive: the
\* key-weak handle is expired, the value-weak one is not
C24_Witness ==
    /\ PairMade
    /\ ~KeyAlive
    /\ ValueAlive
    /\ weak_key_pair_expired(KeyWeak)
    /\ ~weak_value_pair_expired(ValueWeak)

\* -------------------------------------------------------------------- C25
\* a client hasher whose codes all differ while keys 1, 2 and 3 share the
\* ideal slot in a table of four buckets: codes 4, 8, 12 and, for key 4, 1
DistinctHashFns == { [k \in Keys |-> SizeT((4 * k) % 15)] }

\* the table constructed with such a hasher
DistinctInit ==
    /\ client_hash \in DistinctHashFns
    /\ \E capacity \in InitialCapacities : buckets_ = NewBuckets(capacity)
    /\ size_ = 0
    /\ refs = [v \in Values |-> IF v = 1 THEN 2 ELSE 1]
    /\ halted = "no"
    /\ traversed = FALSE
    /\ yielded = <<>>
    /\ VecIdle
    /\ ClientIdle

DistinctSpec == DistinctInit /\ [][Next]_vars

\* C25 (persistence of live entries): a value that a bucket holds and that
\* still has an external owner is a member: member(key_of(v)) is true after
\* any sequence of inserts and expirations of other values, also when an
\* insert reclaimed an expired bucket on the probe path of v.
C25_LiveEntriesPersist ==
    halted = "no" =>
        \A v \in Values :
            (Owned(v) /\ Stored(v)) => IsMember(key_of(v))

\* -------------------------------------------------------------------- C26
\* insert(v) by a client that keeps every value alive and notes, per key,
\* the value it inserted last
RefInsert(v) ==
    /\ insert_call(v)
    /\ inserted' = [inserted EXCEPT ![key_of(v)] = v]
    /\ UNCHANGED <<iter, pair>>

RefNext ==
    \/ \E v \in Values : RefInsert(v)
    \/ \E k \in Keys : Member(k)
    \/ Traverse

\* the table and a client that never drops a value
RefSpec == Init /\ [][RefNext]_vars

\* the keys the client inserted
InsertedKeys == {k \in Keys : inserted[k] # NoValue}

\* C26 (agreement with a reference set when nothing expires): after any
\* sequence of inserts of values that are all kept alive, member(k) is true
\* exactly for the keys inserted, iteration yields exactly one entry per
\* distinct inserted key, size() is the number of distinct inserted keys,
\* and the entry stored for a key is the value inserted last with that key.
C26_AgreesWithReferenceSet ==
    halted = "no" =>
        /\ \A k \in Keys : IsMember(k) <=> k \in InsertedKeys
        /\ KeysOf(Iteration) = InsertedKeys
        /\ Len(Iteration) = Cardinality(InsertedKeys)
        /\ size_ = Cardinality(InsertedKeys)
        /\ \A k \in InsertedKeys :
              \A p \in LivePositionsOf(k) : buckets_[p].value_ = inserted[k]

\* -------------------------------------------------------------------- C27
\* C27 (insert never loses another live entry): whenever insert(v) returns,
\* the keys held by used buckets whose handle locks are those held before
\* together with key_of(v), whether the insert claimed an unused bucket,
\* reclaimed an expired one, replaced an equal key, displaced occupants or
\* grew the table.
C27_InsertKeepsLiveKeys ==
    \A v \in Values :
        Owned(v) =>
            LET r == insert(buckets_, size_, v)
            IN  (r.returned /\ r.asserted) =>
                    LiveKeysIn(r.buckets)
                        = LiveKeysIn(buckets_) \cup {key_of(v)}

\* a state that holds live entries, from which one insert of a new key
\* reclaims an expired bucket and another grows the table
C27_Witness ==
    /\ halted = "no"
    /\ LiveKeysIn(buckets_) # {}
    /\ \E v \in Values :
          /\ Owned(v)
          /\ key_of(v) \notin LiveKeysIn(buckets_)
          /\ OverwritesExpired(Walk(v))
    /\ \E v \in Values :
          /\ Owned(v)
          /\ insert(buckets_, size_, v).moved
          /\ insert(buckets_, size_, v).returned

\* -------------------------------------------------------------------- C28
\* C28 (size counter equals used-bucket count): in every state between
\* operations size() is the number of buckets whose used flag is set, live
\* or expired; and an insert that grows the table leaves size() at the
\* number of entries re-inserted, one per key that was live in the old
\* buffer.
C28_SizeIsUsedCount ==
    /\ halted = "no" => size_ = UsedCount(buckets_)
    /\ \A v \in Values :
          Owned(v) =>
              LET r == insert(buckets_, size_, v)
              IN  (r.moved /\ r.returned /\ r.asserted) =>
                      /\ r.size = UsedCount(r.buckets)
                      /\ r.size = Cardinality(LiveKeysIn(Walk(v).buckets))

\* a table that has grown and counts an expired bucket, from which an insert
\* grows it again
C28_Witness ==
    /\ halted = "no"
    /\ HasGrown
    /\ ExpiredPositions # {}
    /\ \E v \in Values :
          /\ Owned(v)
          /\ insert(buckets_, size_, v).moved
          /\ insert(buckets_, size_, v).returned

\* -------------------------------------------------------------------- C29
\* C29 (stored hash matches stored value): in every reachable state, every
\* used bucket whose handle locks stores the masked hash of the key of the
\* value it holds, after claims, overwrites, replacements, displacements and
\* growths alike.
C29_StoredHashMatches ==
    \A p \in Positions :
        occupied(buckets_[p]) =>
            buckets_[p].hash_code_ = hash_(key(lock(buckets_[p].value_)))

\* a grown table with an expired bucket and a live bucket that was pushed
\* off its ideal slot and stores a hash other than 0
C29_Witness ==
    /\ halted = "no"
    /\ HasGrown
    /\ ExpiredPositions # {}
    /\ \E p \in LivePositions :
          /\ DistanceAt(p) > 0
          /\ buckets_[p].hash_code_ # 0

\* -------------------------------------------------------------------- C31
\* the high bit of size_t, the one Bucket gives to used_
TopBit == Pow2(number_of_hash_bits_)

\* a size_t with its high bit cleared
ClearTopBit(h) == IF h >= TopBit THEN h - TopBit ELSE h

\* two size_t values that differ in the high bit and nowhere else
DifferOnlyInTopBit(h1, h2) == h1 = h2 + TopBit \/ h2 = h1 + TopBit

\* a client hasher that uses the high bit: the codes of keys 1 and 3, and of
\* keys 2 and 4, differ in the high bit only
TopBitHashFns ==
    { [k \in Keys |-> SizeT((k % 2) + TopBit * ((k \div 2) % 2))] }

\* the table constructed with such a hasher
TopBitInit ==
    /\ client_hash \in TopBitHashFns
    /\ \E capacity \in InitialCapacities : buckets_ = NewBuckets(capacity)
    /\ size_ = 0
    /\ refs = [v \in Values |-> IF v = 1 THEN 2 ELSE 1]
    /\ halted = "no"
    /\ traversed = FALSE
    /\ yielded = <<>>
    /\ VecIdle
    /\ ClientIdle

TopBitSpec == TopBitInit /\ [][Next]_vars

\* C31 (hash truncation): the hash the table computes for a key is the
\* client hash with the high bit of the word cleared; every hash a bucket
\* stores fits the number_of_hash_bits_ bits of the field, and the one next
\* to a value that locks is the truncated client hash of its key; two keys
\* whose client hashes differ in the high bit only have the same hash and
\* the same ideal slot.
C31_HashTruncation ==
    /\ \A k \in Keys : hash_(k) = ClearTopBit(client_hash[k])
    /\ \A p \in Positions :
          /\ buckets_[p].hash_code_ < TopBit
          /\ occupied(buckets_[p]) =>
                buckets_[p].hash_code_ =
                    ClearTopBit(client_hash[key_of(buckets_[p].value_)])
    /\ \A k1, k2 \in Keys :
          DifferOnlyInTopBit(client_hash[k1], client_hash[k2]) =>
              /\ hash_(k1) = hash_(k2)
              /\ which_bucket_(buckets_, hash_(k1)) =
                     which_bucket_(buckets_, hash_(k2))

\* two live entries whose client hashes differ in the high bit only are
\* stored under one hash, one of them off the ideal slot they share
C31_Witness ==
    /\ halted = "no"
    /\ \E p, q \in LivePositions :
          /\ p # q
          /\ DifferOnlyInTopBit(client_hash[key_of(buckets_[p].value_)],
                                client_hash[key_of(buckets_[q].value_)])
          /\ buckets_[p].hash_code_ = buckets_[q].hash_code_
          /\ IdealSlot(buckets_, p) = IdealSlot(buckets_, q)
          /\ DistanceAt(q) > 0

\* ------------------------------------------- the fixed_vectors, as observed
\* the last call was op and the run goes on
Called(op) == vec_last.op = op /\ vec_halted = "no"

\* the object the last call was made on, now and before the call
This == vecs[vec_last.this]

ThisBefore == vec_last.before[vec_last.this]

\* the argument object of the last call, now and before the call
Other == vecs[vec_last.other]

OtherBefore == vec_last.before[vec_last.other]

\* v has the size and the elements w had
SameContents(v, w) == v.size_ = w.size_ /\ v.data_ = w.data_

\* -------------------------------------------------------------------- C11
\* C11 (clear): after clear() on a buffer of any size N, size() is 0 and
\* empty() is true.
C11_ClearEmpties ==
    Called("clear") => (size(This) = 0 /\ empty(This))

\* -------------------------------------------------------------------- C12
\* C12 (move assignment): after a = std::move(b), a holds the size and the
\* elements b had and b has size 0, whatever the sizes were.
C12_MoveAssignTransfers ==
    Called("move_assign") =>
        /\ SameContents(This, OtherBefore)
        /\ size(Other) = 0

\* -------------------------------------------------------------------- C13
\* C13 (move construction): a buffer move-constructed from s has the size
\* and the elements s had, and s is left with size 0.
C13_MoveConstructTransfers ==
    Called("move_construct") =>
        /\ This.life = "alive"
        /\ SameContents(This, OtherBefore)
        /\ size(Other) = 0
        /\ empty(Other)

\* a buffer move-constructed from one that held two different elements
C13_Witness ==
    /\ Called("move_construct")
    /\ size(OtherBefore) = 2
    /\ Len(OtherBefore.data_) = 2
    /\ OtherBefore.data_[1] # OtherBefore.data_[2]

C15_BoundsCheckedAccess ==
    /\ vec_last.op = "at" =>
          IF vec_last.index >= size(ThisBefore)
          THEN vec_last.thrown /\ vecs = vec_last.before /\ vec_halted = "no"
          ELSE /\ ~vec_last.thrown
               /\ vec_halted = "no"
               /\ vecs = vec_last.before
               /\ vec_last.index < Len(ThisBefore.data_)
               /\ vec_last.value = ThisBefore.data_[vec_last.index + 1]
    /\ vec_last.op = "assign" =>
          IF vec_last.index >= size(ThisBefore)
          THEN vec_last.thrown /\ vecs = vec_last.before /\ vec_halted = "no"
          ELSE /\ ~vec_last.thrown
               /\ vec_halted = "no"
               /\ vec_last.index < Len(ThisBefore.data_)
               /\ vecs = [vec_last.before EXCEPT
                            ![vec_last.this].data_[vec_last.index + 1] =
                                vec_last.value]

\* -------------------------------------------------------------------- C16
\* C16 (swap): after a.swap(b), a has the size and the elements b had and b
\* those a had, no element value changed; swapping the two once more gives
\* both buffers back as they were.
C16_SwapExchanges ==
    Called("swap") =>
        /\ SameContents(This, OtherBefore)
        /\ SameContents(Other, ThisBefore)
        /\ LET again == swap(This, Other)
           IN  /\ again.this = ThisBefore
               /\ again.other = OtherBefore

\* a swap of two buffers of different sizes, one of them holding an element
\* that is not 0
C16_Witness ==
    /\ Called("swap")
    /\ size(ThisBefore) # size(OtherBefore)
    /\ \E i \in 1..Len(OtherBefore.data_) : OtherBefore.data_[i] # 0
    /\ Len(ThisBefore.data_) = size(ThisBefore)
    /\ Len(OtherBefore.data_) = size(OtherBefore)

\* -------------------------------------------------------------------- C30
\* C30 (element lifetime): after any sequence of construction, swap, clear,
\* move construction and move assignment, the recorded size of every live
\* buffer is the number of constructed slots behind its data pointer, so
\* that the destructor destroys every constructed element exactly once and
\* touches no slot outside the allocation; and no call that destroyed
\* elements went outside it.
C30_ElementLifetime ==
    /\ \A x \in VecNames :
          vecs[x].life = "alive" => deallocate_defined(vecs[x])
    /\ vec_last.op = "destroy" => deallocate_defined(ThisBefore)

====
